---- MODULE Spec2Model ----
(***************************************************************************)
(* ReusingVec (src/src/lib.rs) and ReusingQueue (src/src/queue.rs): growable *)
(* sequences whose logical markers move over a backing Vec whose elements   *)
(* are kept, not dropped, when they are logically removed.                  *)
(*                                                                         *)
(* Physical indices are 0-based as in the source; a TLA+ sequence is        *)
(* 1-based, so the slot at physical index i is contents[i + 1].             *)
(***************************************************************************)
EXTENDS Integers, Sequences, FiniteSets, TLC

\* Largest physical length of a backing Vec in Spec and SpecReuse.
MaxPhys == 3

\* SpecPP: the most pushes in one run.
MaxOps == 4
EqPhys == 2

\* SpecDrift: the live length the pop_front/push cycles never exceed (the K of
\* the drift claim), and the physical length the runs may reach.
LiveCap == 2

DriftPhys == 2 * LiveCap + 1

\* The element type T is a small growable collection (Vec<u8>): its values.
Elem == {<<>>, <<1>>, <<2>>}

\* Plain Vec<T> inputs of From<Vec<T>> and FromIterator.
RECURSIVE SeqsUpTo(_)
SeqsUpTo(n) ==
    IF n = 0 THEN {<<>>}
    ELSE LET shorter == SeqsUpTo(n - 1)
         IN shorter \cup {Append(s, e) : s \in {t \in shorter : Len(t) = n - 1}, e \in Elem}

VARIABLES
    kind,       \* which container type the program drives: "vec" or "queue"
    vec,        \* the ReusingVec: [logical_len, contents]
    queue,      \* the ReusingQueue: [logical_start, logical_end, contents]
    op,         \* the operation called last
    ret,        \* what that call returned: [tag, idx], idx the physical index borrowed
    path,       \* what the last call did to the slot it pushed: "new", "reset", "assign"
    dropped,    \* how many stored elements the last call destroyed
    stale,      \* <<content>> of the retired slot the last push took over, else <<>>
    q_abs,      \* the abstract double-ended sequence the queue stands for
    n_push,     \* SpecPP: pushes so far
    n_pop,      \* SpecPP: pops that returned an element so far
    n_new,      \* SpecReuse: fresh constructions so far
    peak_len,   \* SpecReuse: largest logical length so far
    fronts,     \* SpecDrift: pop_front calls since the window was last empty
    peak_fronts, \* SpecDrift: largest value fronts has had
    arg,        \* the usize argument of the last call, 0 when it takes none
    out,        \* the plain Vec<T> the last conversion or iteration produced
    other,      \* SpecEq: the right-hand operand of ==, a ReusingQueue or a ReusingVec
    o_abs,      \* SpecEq: the abstract sequence that operand stands for
    pc,         \* SpecDrain: where the draining loop is
    todo,       \* SpecDrain: len() when the loop started
    removed     \* SpecDrain: elements the loop has removed

vars == <<kind, vec, queue, op, ret, path, dropped, stale, q_abs,
          n_push, n_pop, n_new, peak_len, fronts, peak_fronts,
          arg, out, other, o_abs, pc, todo, removed>>

counters == <<n_push, n_pop, n_new, peak_len, fronts, peak_fronts>>

scenario == <<other, o_abs, pc, todo, removed>>

(***************************************************************************)
(* Elements.  A stored element is an object: `val` is its content and `id`  *)
(* names the object.  Before a call the stored objects are named by their   *)
(* physical position (1..len); an object the call constructs, or that the   *)
(* caller moves in, has id 0.  An object whose id is gone after the call    *)
(* was destroyed by it; a slot that keeps its id was changed in place.      *)
(***************************************************************************)
Obj(v) == [id |-> 0, val |-> v]

Tag(contents) == [i \in 1..Len(contents) |-> [id |-> i, val |-> contents[i]]]

Untag(slots) == [i \in 1..Len(slots) |-> slots[i].val]

TagOf(self) == [self EXCEPT !.contents = Tag(@)]

UntagOf(self) == [self EXCEPT !.contents = Untag(@)]

Dropped(before, after) ==
    Cardinality({i \in 1..Len(before) : \A j \in 1..Len(after) : after[j].id # i})

\* The slot at physical index idx after a push over `before`.
PathOf(before, after, idx) ==
    IF Len(after) > Len(before) THEN "new"
    ELSE IF idx < Len(after) /\ after[idx + 1].id = idx + 1 THEN "reset"
    ELSE "assign"

\* Return values: (), None, Some(&mut contents[idx]), and a failed unwrap().
Unit == [tag |-> "Unit", idx |-> 0]
None == [tag |-> "None", idx |-> 0]
Some(idx) == [tag |-> "Some", idx |-> idx]
Panic == [tag |-> "Panic", idx |-> 0]
Bool(b) == [tag |-> "Bool", idx |-> IF b THEN 1 ELSE 0]

\* Vec::get_mut(idx)
get_mut(contents, idx) == IF idx < Len(contents) THEN Some(idx) ELSE None

\* Option::unwrap()
unwrap(r) == IF r.tag = "Some" THEN r ELSE Panic

\* What a call that hands nothing back returns: (), unless it panicked.
Done(panics) == IF panics THEN Panic ELSE Unit

\* usize `a - b` below zero: a panic in a debug build, a wrapped value in a
\* release build; either is recorded as a fault of the call.
Underflows(a, b) == a < b

\* &v[a..b] panics unless a <= b <= v.len().
slice_panics(v, a, b) == a > b \/ b > Len(v)

\* Vec::drain(a..b), the drained items dropped: panics as a slice does.
Vec_drain(v, a, b) == SubSeq(v, 1, a) \o SubSeq(v, b + 1, Len(v))

\* Vec::truncate(n): no effect when n >= len.
Vec_truncate(v, n) == IF n < Len(v) THEN SubSeq(v, 1, n) ELSE v

\* Iterator::nth(n) on vec::IntoIter: consumes n + 1 items, or all there are.
Iter_nth(items, n) == IF n + 1 < Len(items) THEN SubSeq(items, n + 2, Len(items)) ELSE <<>>

\* Iterator::take(n), collected: the next n items, or all there are.
Iter_take(items, n) == IF n < Len(items) THEN SubSeq(items, 1, n) ELSE items

(***************************************************************************)
(* ReusableElement for Vec<T>                                              *)
(***************************************************************************)
\* Variant: a reset that leaves the items in place.
ReusableElement_reset_keeps(e) == e

\* fn reset(&mut self) { self.clear() }: the same object, with no items.
ReusableElement_reset(e) == [e EXCEPT !.val = SubSeq(@, 1, 0)]

\* fn new() -> Self { Self::new() }
ReusableElement_new == Obj(<<>>)

(***************************************************************************)
(* The closures handed to push_with: new_f() builds an object, reset_f      *)
(* rewrites the content of the object it is given.  The pairs drawn are the *)
(* ones that agree on the value v the pushed element is to hold.            *)
(***************************************************************************)
Closures == {[new_f |-> v, reset_f |-> [e \in Elem |-> v]] : v \in Elem}

call_new(c) == Obj(c.new_f)

call_reset(c, e) == [e EXCEPT !.val = c.reset_f[@]]

\* push_mut's pair: T::new and T::reset.
ElementClosures == [new_f |-> ReusableElement_new.val,
                    reset_f |-> [e \in Elem |-> ReusableElement_reset(Obj(e)).val]]

(***************************************************************************)
(* ReusingVec                                                              *)
(***************************************************************************)
ReusingVec_new == [logical_len |-> 0, contents |-> <<>>]

ReusingVec_with_capacity(capacity) == [logical_len |-> 0, contents |-> <<>>]

\* Variant: a clear that empties the backing Vec (contents.clear()).
ReusingVec_clear_drops(self) == [self EXCEPT !.logical_len = 0, !.contents = <<>>]

ReusingVec_clear(self) == [self EXCEPT !.logical_len = 0]

\* Variant: a truncate without the `len < logical_len` test.
ReusingVec_truncate_always(self, len) == [self EXCEPT !.logical_len = len]

\* Variant: a truncate that tests len against the physical length.
ReusingVec_truncate_physical(self, len) ==
    IF len < Len(self.contents) THEN [self EXCEPT !.logical_len = len] ELSE self

ReusingVec_truncate(self, len) ==
    IF len < self.logical_len THEN [self EXCEPT !.logical_len = len] ELSE self

ReusingVec_len(self) == self.logical_len

ReusingVec_is_empty(self) == self.logical_len = 0

ReusingVec_push_val(self, val) ==
    LET stored == IF self.logical_len < Len(self.contents)
                  THEN [self EXCEPT !.contents[self.logical_len + 1] = val]
                  ELSE [self EXCEPT !.contents = Append(@, val)]
    IN [stored EXCEPT !.logical_len = @ + 1]

\* Variant: the reuse branch assigns new_f() instead of calling reset_f.
ReusingVec_push_with_rebuilds(self, c) ==
    LET stored == IF self.logical_len < Len(self.contents)
                  THEN [self EXCEPT !.contents[self.logical_len + 1] = call_new(c)]
                  ELSE [self EXCEPT !.contents = Append(@, call_new(c))]
    IN [stored EXCEPT !.logical_len = @ + 1]

ReusingVec_push_with(self, c) ==
    LET stored == IF self.logical_len < Len(self.contents)
                  THEN [self EXCEPT !.contents[self.logical_len + 1] = call_reset(c, @)]
                  ELSE [self EXCEPT !.contents = Append(@, call_new(c))]
    IN [stored EXCEPT !.logical_len = @ + 1]

\* Variant: a pop without the emptiness test (saturating_sub, then get_mut).
ReusingVec_pop_saturating(self) ==
    LET popped == [self EXCEPT !.logical_len = IF @ > 0 THEN @ - 1 ELSE 0]
    IN [self |-> popped, ret |-> get_mut(popped.contents, popped.logical_len)]

ReusingVec_pop(self) ==
    IF self.logical_len > 0
    THEN LET popped == [self EXCEPT !.logical_len = @ - 1]
         IN [self |-> popped, ret |-> get_mut(popped.contents, popped.logical_len)]
    ELSE [self |-> self, ret |-> None]

\* Variant: a push_mut whose reuse branch hands the slot back as it is.
ReusingVec_push_mut_no_reset(self) ==
    LET stored == IF self.logical_len < Len(self.contents)
                  THEN self
                  ELSE [self EXCEPT !.contents = Append(@, ReusableElement_new)]
        element == unwrap(get_mut(stored.contents, self.logical_len))
    IN [self |-> [stored EXCEPT !.logical_len = @ + 1], ret |-> element]

ReusingVec_push_mut(self) ==
    LET stored == IF self.logical_len < Len(self.contents)
                  THEN [self EXCEPT !.contents[self.logical_len + 1] = ReusableElement_reset(@)]
                  ELSE [self EXCEPT !.contents = Append(@, ReusableElement_new)]
        element == unwrap(get_mut(stored.contents, self.logical_len))
    IN [self |-> [stored EXCEPT !.logical_len = @ + 1], ret |-> element]

\* From<Vec<T>> for ReusingVec<T>
ReusingVec_from(v) == [logical_len |-> Len(v), contents |-> v]

\* FromIterator<U>, with U = T: `element.into()` is From<T> for T, which hands
\* back the value it is given.
ReusingVec_from_iter(items) ==
    LET contents == [i \in 1..Len(items) |-> items[i]]
    IN [logical_len |-> Len(contents), contents |-> contents]

\* Deref / AsRef / Borrow: &contents[0..logical_len]
ReusingVec_deref(self) == SubSeq(self.contents, 1, self.logical_len)

ReusingVec_deref_panics(self) == slice_panics(self.contents, 0, self.logical_len)

\* The unwrap() in the reuse branch of push_val and push_with.
ReusingVec_push_panics(self) ==
    /\ self.logical_len < Len(self.contents)
    /\ unwrap(get_mut(self.contents, self.logical_len)) = Panic

\* From<ReusingVec<T>> for Vec<T>
ReusingVec_into_vec(self) == Vec_truncate(self.contents, self.logical_len)

\* IntoIterator for ReusingVec<T>, collected
ReusingVec_into_iter(self) == Iter_take(self.contents, self.logical_len)

(***************************************************************************)
(* ReusingQueue                                                            *)
(***************************************************************************)
ReusingQueue_new == [logical_start |-> 0, logical_end |-> 0, contents |-> <<>>]

ReusingQueue_with_capacity(capacity) ==
    [logical_start |-> 0, logical_end |-> 0, contents |-> <<>>]

ReusingQueue_clear(self) == [self EXCEPT !.logical_start = 0, !.logical_end = 0]

\* Variant: a truncate that sets logical_end = len, as if logical_start were 0.
ReusingQueue_truncate_from_zero(self, len) ==
    IF len = 0 THEN ReusingQueue_clear(self)
    ELSE IF len < self.logical_end - self.logical_start
         THEN [self EXCEPT !.logical_end = len]
         ELSE self

\* Variant: a truncate without the `len == 0` branch.
ReusingQueue_truncate_no_zero_case(self, len) ==
    IF len < self.logical_end - self.logical_start
    THEN [self EXCEPT !.logical_end = self.logical_start + len]
    ELSE self

ReusingQueue_truncate(self, len) ==
    IF len = 0 THEN ReusingQueue_clear(self)
    ELSE IF len < self.logical_end - self.logical_start
         THEN [self EXCEPT !.logical_end = self.logical_start + len]
         ELSE self

\* usize subtraction; C4_MarkersInStorage keeps logical_start <= logical_end, so
\* the difference is never negative in a reachable state.
ReusingQueue_len(self) == self.logical_end - self.logical_start

ReusingQueue_is_empty(self) == ReusingQueue_len(self) = 0

\* Variant: logical_end is advanced in the growing branch only.
ReusingQueue_push_with_no_advance(self, c) ==
    IF self.logical_end < Len(self.contents)
    THEN [self EXCEPT !.contents[self.logical_end + 1] = call_reset(c, @)]
    ELSE [self EXCEPT !.contents = Append(@, call_new(c)), !.logical_end = @ + 1]

ReusingQueue_push_with(self, c) ==
    LET stored == IF self.logical_end < Len(self.contents)
                  THEN [self EXCEPT !.contents[self.logical_end + 1] = call_reset(c, @)]
                  ELSE [self EXCEPT !.contents = Append(@, call_new(c))]
    IN [stored EXCEPT !.logical_end = @ + 1]

\* Variant: a pop that leaves the markers where they are when the window empties.
ReusingQueue_pop_no_collapse(self) ==
    IF self.logical_end > self.logical_start
    THEN LET moved == [self EXCEPT !.logical_end = @ - 1]
         IN [self |-> moved, ret |-> get_mut(moved.contents, moved.logical_end)]
    ELSE [self |-> ReusingQueue_clear(self), ret |-> None]

\* Variant: a pop that resets the element it removes.
ReusingQueue_pop_resets(self) ==
    IF self.logical_end > self.logical_start
    THEN LET moved == [self EXCEPT !.logical_end = @ - 1]
             old_idx == moved.logical_end
             after == IF moved.logical_end = moved.logical_start
                      THEN ReusingQueue_clear(moved) ELSE moved
         IN [self |-> [after EXCEPT !.contents[old_idx + 1] = ReusableElement_reset(@)],
             ret |-> get_mut(after.contents, old_idx)]
    ELSE [self |-> ReusingQueue_clear(self), ret |-> None]

\* Variant: a pop that hands out the last element and leaves logical_end.
ReusingQueue_pop_keeps_end(self) ==
    IF self.logical_end > self.logical_start
    THEN [self |-> self, ret |-> get_mut(self.contents, self.logical_end - 1)]
    ELSE [self |-> ReusingQueue_clear(self), ret |-> None]

ReusingQueue_pop(self) ==
    IF self.logical_end > self.logical_start
    THEN LET moved == [self EXCEPT !.logical_end = @ - 1]
             old_idx == moved.logical_end
             after == IF moved.logical_end = moved.logical_start
                      THEN ReusingQueue_clear(moved) ELSE moved
         IN [self |-> after, ret |-> get_mut(after.contents, old_idx)]
    ELSE [self |-> ReusingQueue_clear(self), ret |-> None]

\* Variant: a pop_front that leaves the markers where they are when the window empties.
ReusingQueue_pop_front_no_collapse(self) ==
    IF self.logical_end > self.logical_start
    THEN LET old_idx == self.logical_start
             moved == [self EXCEPT !.logical_start = @ + 1]
         IN [self |-> moved, ret |-> get_mut(moved.contents, old_idx)]
    ELSE [self |-> ReusingQueue_clear(self), ret |-> None]

\* Variant: a pop_front that reads the index to hand back after the collapse.
ReusingQueue_pop_front_after_collapse(self) ==
    IF self.logical_end > self.logical_start
    THEN LET moved == [self EXCEPT !.logical_start = @ + 1]
             after == IF moved.logical_end = moved.logical_start
                      THEN ReusingQueue_clear(moved) ELSE moved
         IN [self |-> after,
             ret |-> get_mut(after.contents,
                             IF after.logical_start = 0 THEN 0 ELSE after.logical_start - 1)]
    ELSE [self |-> ReusingQueue_clear(self), ret |-> None]

\* Variant: a pop_front that advances the start marker without asking whether
\* the window is empty.
ReusingQueue_pop_front_unguarded(self) ==
    LET old_idx == self.logical_start
        moved == [self EXCEPT !.logical_start = @ + 1]
        after == IF moved.logical_end = moved.logical_start
                 THEN ReusingQueue_clear(moved) ELSE moved
    IN [self |-> after, ret |-> get_mut(after.contents, old_idx)]

ReusingQueue_pop_front(self) ==
    IF self.logical_end > self.logical_start
    THEN LET old_idx == self.logical_start
             moved == [self EXCEPT !.logical_start = @ + 1]
             after == IF moved.logical_end = moved.logical_start
                      THEN ReusingQueue_clear(moved) ELSE moved
         IN [self |-> after, ret |-> get_mut(after.contents, old_idx)]
    ELSE [self |-> ReusingQueue_clear(self), ret |-> None]

\* Variant: a push_mut that reuses the retired slot in front of the window.
ReusingQueue_push_mut_front_slot(self) ==
    IF self.logical_start > 0 /\ self.logical_start < self.logical_end
    THEN [self |-> [self EXCEPT !.contents[self.logical_start] = ReusableElement_reset(@),
                                !.logical_start = @ - 1],
          ret |-> get_mut(self.contents, self.logical_start - 1)]
    ELSE LET stored == IF self.logical_end < Len(self.contents)
                       THEN [self EXCEPT !.contents[self.logical_end + 1] = ReusableElement_reset(@)]
                       ELSE [self EXCEPT !.contents = Append(@, ReusableElement_new)]
             element == unwrap(get_mut(stored.contents, self.logical_end))
         IN [self |-> [stored EXCEPT !.logical_end = @ + 1], ret |-> element]

ReusingQueue_push_mut(self) ==
    LET stored == IF self.logical_end < Len(self.contents)
                  THEN [self EXCEPT !.contents[self.logical_end + 1] = ReusableElement_reset(@)]
                  ELSE [self EXCEPT !.contents = Append(@, ReusableElement_new)]
        element == unwrap(get_mut(stored.contents, self.logical_end))
    IN [self |-> [stored EXCEPT !.logical_end = @ + 1], ret |-> element]

\* From<Vec<T>> for ReusingQueue<T>
ReusingQueue_from(v) == [logical_start |-> 0, logical_end |-> Len(v), contents |-> v]

\* FromIterator<U>, with U = T (see ReusingVec_from_iter).
ReusingQueue_from_iter(items) ==
    LET contents == [i \in 1..Len(items) |-> items[i]]
    IN [logical_start |-> 0, logical_end |-> Len(contents), contents |-> contents]

\* Deref / AsRef / Borrow: &contents[logical_start..logical_end]
ReusingQueue_deref(self) == SubSeq(self.contents, self.logical_start + 1, self.logical_end)

ReusingQueue_deref_panics(self) ==
    slice_panics(self.contents, self.logical_start, self.logical_end)

ReusingQueue_len_panics(self) == Underflows(self.logical_end, self.logical_start)

ReusingQueue_truncate_panics(self, len) ==
    len # 0 /\ Underflows(self.logical_end, self.logical_start)

\* The unwrap() in the reuse branch of push_with.
ReusingQueue_push_panics(self) ==
    /\ self.logical_end < Len(self.contents)
    /\ unwrap(get_mut(self.contents, self.logical_end)) = Panic

\* Variant: a conversion that truncates to logical_end without draining the front.
ReusingQueue_into_vec_no_drain(self) == Vec_truncate(self.contents, self.logical_end)

\* From<ReusingQueue<T>> for Vec<T>
ReusingQueue_into_vec(self) ==
    Vec_truncate(Vec_drain(self.contents, 0, self.logical_start),
                 self.logical_end - self.logical_start)

ReusingQueue_into_vec_panics(self) ==
    \/ slice_panics(self.contents, 0, self.logical_start)
    \/ Underflows(self.logical_end, self.logical_start)

\* Variant: an into_iter that skips with nth(logical_start).
ReusingQueue_into_iter_skips_one_more(self) ==
    LET iter == IF self.logical_start > 0
                THEN Iter_nth(self.contents, self.logical_start)
                ELSE self.contents
    IN Iter_take(iter, self.logical_end - self.logical_start)

\* IntoIterator for ReusingQueue<T>, collected
ReusingQueue_into_iter(self) ==
    LET iter == IF self.logical_start > 0
                THEN Iter_nth(self.contents, self.logical_start - 1)
                ELSE self.contents
    IN Iter_take(iter, self.logical_end - self.logical_start)

ReusingQueue_into_iter_panics(self) == Underflows(self.logical_end, self.logical_start)

(***************************************************************************)
(* Calls.  A call tags the stored objects, applies the operation, stores    *)
(* the result and records what the call returned and did.                   *)
(***************************************************************************)
PushOps == {"push_val", "push_with", "push_mut"}

Init ==
    /\ kind \in {"vec", "queue"}
    /\ vec = ReusingVec_new
    /\ queue = ReusingQueue_new
    /\ op = "new"
    /\ ret = Unit
    /\ path = "none"
    /\ dropped = 0
    /\ stale = <<>>
    /\ q_abs = <<>>
    /\ n_push = 0
    /\ n_pop = 0
    /\ n_new = 0
    /\ peak_len = 0
    /\ fronts = 0
    /\ peak_fronts = 0
    /\ arg = 0
    /\ out = <<>>
    /\ other = ReusingQueue_new
    /\ o_abs = <<>>
    /\ pc = "run"
    /\ todo = 0
    /\ removed = 0

\* A method of the ReusingVec; r is [self, ret] over the tagged vec.
VecCall(name, r) ==
    /\ kind = "vec"
    /\ vec' = UntagOf(r.self)
    /\ op' = name
    /\ ret' = r.ret
    /\ path' = IF name \in PushOps
               THEN PathOf(Tag(vec.contents), r.self.contents, vec.logical_len)
               ELSE "none"
    /\ dropped' = Dropped(Tag(vec.contents), r.self.contents)
    /\ stale' = IF name \in PushOps /\ vec.logical_len < Len(vec.contents)
                THEN <<vec.contents[vec.logical_len + 1]>> ELSE <<>>
    /\ UNCHANGED <<kind, queue, q_abs>>

\* A constructor or conversion: the variable now holds a new ReusingVec.
VecMake(name, self) ==
    /\ kind = "vec"
    /\ vec' = self
    /\ op' = name
    /\ ret' = Unit
    /\ path' = "none"
    /\ dropped' = 0
    /\ stale' = <<>>
    /\ UNCHANGED <<kind, queue, q_abs>>

\* A method of the ReusingQueue; abs is the abstract sequence after the call.
QueueCall(name, r, abs) ==
    /\ kind = "queue"
    /\ queue' = UntagOf(r.self)
    /\ op' = name
    /\ ret' = r.ret
    /\ path' = IF name \in PushOps
               THEN PathOf(Tag(queue.contents), r.self.contents, queue.logical_end)
               ELSE "none"
    /\ dropped' = Dropped(Tag(queue.contents), r.self.contents)
    /\ stale' = IF name \in PushOps /\ queue.logical_end < Len(queue.contents)
                THEN <<queue.contents[queue.logical_end + 1]>> ELSE <<>>
    /\ q_abs' = abs
    /\ UNCHANGED <<kind, vec>>

QueueMake(name, self) ==
    /\ kind = "queue"
    /\ queue' = self
    /\ op' = name
    /\ ret' = Unit
    /\ path' = "none"
    /\ dropped' = 0
    /\ stale' = <<>>
    /\ q_abs' = self.contents
    /\ UNCHANGED <<kind, vec>>

\* What every call records beside its effect: its usize argument and the plain
\* Vec it produced.
Called(a, o) == arg' = a /\ out' = o /\ UNCHANGED scenario

\* A call of Spec: it has no counters to keep.
Takes(a) == Called(a, <<>>) /\ UNCHANGED counters

Plain == Takes(0)

\* The abstract sequence: drop the last, drop the first, keep the first n.
AbsPop(s) == IF s = <<>> THEN s ELSE SubSeq(s, 1, Len(s) - 1)

AbsPopFront(s) == IF s = <<>> THEN s ELSE Tail(s)

AbsTruncate(s, n) == IF n < Len(s) THEN SubSeq(s, 1, n) ELSE s

\* A push may grow the backing Vec only up to the model's bound.
VecRoom == vec.logical_len < Len(vec.contents) \/ Len(vec.contents) < MaxPhys

QueueRoom == queue.logical_end < Len(queue.contents) \/ Len(queue.contents) < MaxPhys

(***************************************************************************)
(* Spec: every operation of both containers, from any constructor.          *)
(***************************************************************************)
VNew == VecMake("new", ReusingVec_new) /\ Plain

VWithCapacity ==
    \E capacity \in 0..MaxPhys :
        VecMake("with_capacity", ReusingVec_with_capacity(capacity)) /\ Takes(capacity)

VFromVec ==
    \E v \in SeqsUpTo(MaxPhys) : VecMake("from_vec", ReusingVec_from(v)) /\ Plain

VFromIter ==
    \E items \in SeqsUpTo(MaxPhys) :
        VecMake("from_iter", ReusingVec_from_iter(items)) /\ Plain

VClear ==
    /\ VecCall("clear", [self |-> ReusingVec_clear(TagOf(vec)), ret |-> Unit])
    /\ Plain

VTruncate ==
    \E len \in 0..(MaxPhys + 1) :
        /\ VecCall("truncate", [self |-> ReusingVec_truncate(TagOf(vec), len), ret |-> Unit])
        /\ Takes(len)

VPushVal ==
    \E v \in Elem :
        /\ VecRoom
        /\ VecCall("push_val", [self |-> ReusingVec_push_val(TagOf(vec), Obj(v)),
                 ret |-> Done(ReusingVec_push_panics(vec))])
        /\ Plain

VPushWith ==
    \E c \in Closures :
        /\ VecRoom
        /\ VecCall("push_with", [self |-> ReusingVec_push_with(TagOf(vec), c),
                 ret |-> Done(ReusingVec_push_panics(vec))])
        /\ Plain

VPushMut ==
    /\ VecRoom
    /\ VecCall("push_mut", ReusingVec_push_mut(TagOf(vec)))
    /\ Plain

VPop ==
    /\ VecCall("pop", ReusingVec_pop(TagOf(vec)))
    /\ Plain

\* The caller changes, in place, the element a call handed back by &mut.
VWriteRet ==
    \E w \in Elem :
        /\ kind = "vec"
        /\ ret.tag = "Some"
        /\ vec' = [vec EXCEPT !.contents[ret.idx + 1] = w]
        /\ op' = "write_ret"
        /\ path' = "none"
        /\ dropped' = 0
        /\ stale' = <<>>
        /\ UNCHANGED <<kind, queue, q_abs, ret>>
        /\ Plain

\* DerefMut: the caller changes, in place, element i of the live window.
VWriteLive ==
    \E w \in Elem, i \in 0..(MaxPhys + 1) :
        /\ kind = "vec"
        /\ i < vec.logical_len
        /\ vec' = [vec EXCEPT !.contents[i + 1] = w]
        /\ op' = "deref_mut"
        /\ ret' = Unit
        /\ path' = "none"
        /\ dropped' = 0
        /\ stale' = <<>>
        /\ UNCHANGED <<kind, queue, q_abs>>
        /\ Plain

QNew == QueueMake("new", ReusingQueue_new) /\ Plain

QWithCapacity ==
    \E capacity \in 0..MaxPhys :
        QueueMake("with_capacity", ReusingQueue_with_capacity(capacity)) /\ Takes(capacity)

QFromVec ==
    \E v \in SeqsUpTo(MaxPhys) : QueueMake("from_vec", ReusingQueue_from(v)) /\ Plain

QFromIter ==
    \E items \in SeqsUpTo(MaxPhys) :
        QueueMake("from_iter", ReusingQueue_from_iter(items)) /\ Plain

QClear ==
    /\ QueueCall("clear", [self |-> ReusingQueue_clear(TagOf(queue)), ret |-> Unit], <<>>)
    /\ Plain

QTruncate ==
    \E len \in 0..(MaxPhys + 1) :
        /\ QueueCall("truncate",
                     [self |-> ReusingQueue_truncate(TagOf(queue), len),
                      ret |-> Done(ReusingQueue_truncate_panics(queue, len))],
                     AbsTruncate(q_abs, len))
        /\ Takes(len)

QPushWith ==
    \E c \in Closures :
        /\ QueueRoom
        /\ QueueCall("push_with",
                     [self |-> ReusingQueue_push_with(TagOf(queue), c),
                      ret |-> Done(ReusingQueue_push_panics(queue))],
                     Append(q_abs, c.new_f))
        /\ Plain

QPushMut ==
    /\ QueueRoom
    /\ QueueCall("push_mut", ReusingQueue_push_mut(TagOf(queue)), Append(q_abs, <<>>))
    /\ Plain

QPop ==
    /\ QueueCall("pop", ReusingQueue_pop(TagOf(queue)), AbsPop(q_abs))
    /\ Plain

QPopFront ==
    /\ QueueCall("pop_front", ReusingQueue_pop_front(TagOf(queue)), AbsPopFront(q_abs))
    /\ Plain

\* The abstract sequence after the caller sets the element at physical index idx:
\* it changes only when that element is in the live window.
AbsWrite(idx, w) ==
    IF queue.logical_start <= idx /\ idx < queue.logical_end
    THEN [q_abs EXCEPT ![idx - queue.logical_start + 1] = w]
    ELSE q_abs

QWriteRet ==
    \E w \in Elem :
        /\ kind = "queue"
        /\ ret.tag = "Some"
        /\ queue' = [queue EXCEPT !.contents[ret.idx + 1] = w]
        /\ op' = "write_ret"
        /\ path' = "none"
        /\ dropped' = 0
        /\ stale' = <<>>
        /\ q_abs' = AbsWrite(ret.idx, w)
        /\ UNCHANGED <<kind, vec, ret>>
        /\ Plain

QWriteLive ==
    \E w \in Elem, i \in 0..(MaxPhys + 1) :
        /\ kind = "queue"
        /\ i < ReusingQueue_len(queue)
        /\ queue' = [queue EXCEPT !.contents[queue.logical_start + i + 1] = w]
        /\ op' = "deref_mut"
        /\ ret' = Unit
        /\ path' = "none"
        /\ dropped' = 0
        /\ stale' = <<>>
        /\ q_abs' = [q_abs EXCEPT ![i + 1] = w]
        /\ UNCHANGED <<kind, vec>>
        /\ Plain

\* A call that reads the container and leaves it as it is: it records whether
\* it panicked and the plain Vec it produced.
View(name, panics, o) ==
    /\ op' = name
    /\ ret' = Done(panics)
    /\ path' = "none"
    /\ dropped' = 0
    /\ stale' = <<>>
    /\ UNCHANGED <<kind, vec, queue, q_abs>>
    /\ Called(0, IF panics THEN <<>> ELSE o)
    /\ UNCHANGED counters

\* &*vec, copied out
VDeref ==
    /\ kind = "vec"
    /\ View("deref", ReusingVec_deref_panics(vec), ReusingVec_deref(vec))

\* Vec::from(vec.clone())
VIntoVec ==
    /\ kind = "vec"
    /\ View("into_vec", FALSE, ReusingVec_into_vec(vec))

\* vec.clone().into_iter().collect()
VIntoIter ==
    /\ kind = "vec"
    /\ View("into_iter", FALSE, ReusingVec_into_iter(vec))

\* vec = ReusingVec::from(Vec::from(vec))
VRoundTrip ==
    /\ kind = "vec"
    /\ vec' = ReusingVec_from(ReusingVec_into_vec(vec))
    /\ op' = "round_trip"
    /\ ret' = Unit
    /\ path' = "none"
    /\ dropped' = 0
    /\ stale' = <<>>
    /\ UNCHANGED <<kind, queue, q_abs>>
    /\ Called(0, ReusingVec_into_vec(vec))
    /\ UNCHANGED counters

QLen ==
    /\ kind = "queue"
    /\ View("len", ReusingQueue_len_panics(queue), <<>>)

\* &*queue, copied out
QDeref ==
    /\ kind = "queue"
    /\ View("deref", ReusingQueue_deref_panics(queue), ReusingQueue_deref(queue))

\* Vec::from(queue.clone())
QIntoVec ==
    /\ kind = "queue"
    /\ View("into_vec", ReusingQueue_into_vec_panics(queue), ReusingQueue_into_vec(queue))

\* queue.clone().into_iter().collect()
QIntoIter ==
    /\ kind = "queue"
    /\ View("into_iter", ReusingQueue_into_iter_panics(queue), ReusingQueue_into_iter(queue))

\* queue = ReusingQueue::from(Vec::from(queue)); the sequence the caller sees
\* is meant to stay as it was.
QRoundTrip ==
    LET panics == ReusingQueue_into_vec_panics(queue)
    IN /\ kind = "queue"
       /\ queue' = IF panics THEN queue ELSE ReusingQueue_from(ReusingQueue_into_vec(queue))
       /\ op' = "round_trip"
       /\ ret' = Done(panics)
       /\ path' = "none"
       /\ dropped' = 0
       /\ stale' = <<>>
       /\ UNCHANGED <<kind, vec, q_abs>>
       /\ Called(0, IF panics THEN <<>> ELSE ReusingQueue_into_vec(queue))
       /\ UNCHANGED counters

Next ==
    \/ VNew \/ VWithCapacity \/ VFromVec \/ VFromIter
    \/ VClear \/ VTruncate \/ VPushVal \/ VPushWith \/ VPushMut \/ VPop
    \/ VWriteRet \/ VWriteLive
    \/ VDeref \/ VIntoVec \/ VIntoIter \/ VRoundTrip
    \/ QNew \/ QWithCapacity \/ QFromVec \/ QFromIter
    \/ QClear \/ QTruncate \/ QPushWith \/ QPushMut \/ QPop \/ QPopFront
    \/ QWriteRet \/ QWriteLive
    \/ QLen \/ QDeref \/ QIntoVec \/ QIntoIter \/ QRoundTrip

Spec == Init /\ [][Next]_vars

TypeOK ==
    /\ kind \in {"vec", "queue"}
    /\ vec.logical_len \in Nat
    /\ queue.logical_start \in Nat /\ queue.logical_end \in Nat
    /\ \A i \in 1..Len(vec.contents) : vec.contents[i] \in Elem
    /\ \A i \in 1..Len(queue.contents) : queue.contents[i] \in Elem
    /\ ret.tag \in {"Unit", "None", "Some", "Panic", "Bool"}

(***************************************************************************)
(* SpecPP: pushes and pops only, on a container created by new(), with the  *)
(* calls counted.                                                          *)
(***************************************************************************)
Returned(r) == IF r.tag = "Some" THEN 1 ELSE 0

PPPush == n_push < MaxOps /\ n_push' = n_push + 1 /\ UNCHANGED n_pop

PPPop == n_pop' = n_pop + Returned(ret') /\ UNCHANGED n_push

PPRest == Called(0, <<>>) /\ UNCHANGED <<n_new, peak_len, fronts, peak_fronts>>

PPVecPushVal ==
    \E v \in Elem :
        /\ VecCall("push_val", [self |-> ReusingVec_push_val(TagOf(vec), Obj(v)),
                 ret |-> Done(ReusingVec_push_panics(vec))])
        /\ PPPush /\ PPRest

PPVecPushWith ==
    \E c \in Closures :
        /\ VecCall("push_with", [self |-> ReusingVec_push_with(TagOf(vec), c),
                 ret |-> Done(ReusingVec_push_panics(vec))])
        /\ PPPush /\ PPRest

PPVecPushMut == VecCall("push_mut", ReusingVec_push_mut(TagOf(vec))) /\ PPPush /\ PPRest

PPVecPop == VecCall("pop", ReusingVec_pop(TagOf(vec))) /\ PPPop /\ PPRest

PPQueuePushWith ==
    \E c \in Closures :
        /\ QueueCall("push_with",
                     [self |-> ReusingQueue_push_with(TagOf(queue), c),
                      ret |-> Done(ReusingQueue_push_panics(queue))],
                     Append(q_abs, c.new_f))
        /\ PPPush /\ PPRest

PPQueuePushMut ==
    /\ QueueCall("push_mut", ReusingQueue_push_mut(TagOf(queue)), Append(q_abs, <<>>))
    /\ PPPush /\ PPRest

PPQueuePop ==
    QueueCall("pop", ReusingQueue_pop(TagOf(queue)), AbsPop(q_abs)) /\ PPPop /\ PPRest

PPQueuePopFront ==
    /\ QueueCall("pop_front", ReusingQueue_pop_front(TagOf(queue)), AbsPopFront(q_abs))
    /\ PPPop /\ PPRest

NextPP ==
    \/ PPVecPushVal \/ PPVecPushWith \/ PPVecPushMut \/ PPVecPop
    \/ PPQueuePushWith \/ PPQueuePushMut \/ PPQueuePop \/ PPQueuePopFront

SpecPP == Init /\ [][NextPP]_vars

(***************************************************************************)
(* SpecReuse: a ReusingVec created empty and driven by push_with, push_mut, *)
(* pop, truncate and clear, with the fresh constructions counted.           *)
(***************************************************************************)
InitReuse == Init /\ kind = "vec"

\* The objects a call constructed: the ones in storage that were not there before.
Constructed(after) == Cardinality({j \in 1..Len(after) : after[j].id = 0})

Max(a, b) == IF a >= b THEN a ELSE b

ReuseCount(self) ==
    /\ n_new' = n_new + Constructed(self.contents)
    /\ peak_len' = Max(peak_len, self.logical_len)
    /\ out' = <<>>
    /\ UNCHANGED <<n_push, n_pop, fronts, peak_fronts>>
    /\ UNCHANGED scenario

RPushWith ==
    \E c \in Closures :
        LET self == ReusingVec_push_with(TagOf(vec), c)
        IN /\ VecRoom
           /\ VecCall("push_with", [self |-> self, ret |-> Unit])
           /\ ReuseCount(self)
           /\ arg' = 0

RPushMut ==
    LET r == ReusingVec_push_mut(TagOf(vec))
    IN VecRoom /\ VecCall("push_mut", r) /\ ReuseCount(r.self) /\ arg' = 0

RPop ==
    LET r == ReusingVec_pop(TagOf(vec))
    IN VecCall("pop", r) /\ ReuseCount(r.self) /\ arg' = 0

RTruncate ==
    \E len \in 0..(MaxPhys + 1) :
        LET self == ReusingVec_truncate(TagOf(vec), len)
        IN /\ VecCall("truncate", [self |-> self, ret |-> Unit])
           /\ ReuseCount(self)
           /\ arg' = len

RClear ==
    LET self == ReusingVec_clear(TagOf(vec))
    IN VecCall("clear", [self |-> self, ret |-> Unit]) /\ ReuseCount(self) /\ arg' = 0

NextReuse == RPushWith \/ RPushMut \/ RPop \/ RTruncate \/ RClear

SpecReuse == InitReuse /\ [][NextReuse]_vars

(***************************************************************************)
(* SpecDrift: a ReusingQueue created by new() and driven by push_with and   *)
(* pop_front only, the live length never above LiveCap.                     *)
(***************************************************************************)
InitDrift == Init /\ kind = "queue"

DPush ==
    \E c \in Closures :
        /\ ReusingQueue_len(queue) < LiveCap
        /\ queue.logical_end < DriftPhys
        /\ QueueCall("push_with",
                     [self |-> ReusingQueue_push_with(TagOf(queue), c),
                      ret |-> Done(ReusingQueue_push_panics(queue))],
                     Append(q_abs, c.new_f))
        /\ Plain

DPopFront ==
    LET r == ReusingQueue_pop_front(TagOf(queue))
        abs == AbsPopFront(q_abs)
        count == IF abs = <<>> THEN 0 ELSE fronts + Returned(r.ret)
    IN /\ QueueCall("pop_front", r, abs)
       /\ fronts' = count
       /\ peak_fronts' = Max(peak_fronts, count)
       /\ Called(0, <<>>)
       /\ UNCHANGED <<n_push, n_pop, n_new, peak_len>>

NextDrift == DPush \/ DPopFront

SpecDrift == InitDrift /\ [][NextDrift]_vars

(***************************************************************************)
(* Equality.  Every impl compares two slices: the operands coerced to       *)
(* &[T] by Deref, or the plain Vec or slice handed in.                      *)
(***************************************************************************)
\* Which struct a container value is.
IsVec(c) == "logical_len" \in DOMAIN c

\* `c as &[T]`
as_slice(c) == IF IsVec(c) THEN ReusingVec_deref(c) ELSE ReusingQueue_deref(c)

\* <[T] as PartialEq>::eq: the lengths, then the elements in order.
slice_eq(a, b) == Len(a) = Len(b) /\ \A i \in 1..Len(a) : a[i] = b[i]

\* PartialEq<Self> and PartialEq<[T]>, PartialEq<Vec<T>> for ReusingVec
ReusingVec_eq(self, rhs) == slice_eq(ReusingVec_deref(self), ReusingVec_deref(rhs))

ReusingVec_eq_slice(self, rhs) == slice_eq(ReusingVec_deref(self), rhs)

\* Variant: an equality that compares the backing Vecs.
ReusingQueue_eq_physical(self, rhs) == slice_eq(self.contents, rhs.contents)

\* PartialEq<Self> and PartialEq<ReusingVec<T>> for ReusingQueue
ReusingQueue_eq(self, rhs) == slice_eq(ReusingQueue_deref(self), as_slice(rhs))

\* PartialEq<[T]> and PartialEq<Vec<T>> for ReusingQueue
ReusingQueue_eq_slice(self, rhs) == slice_eq(ReusingQueue_deref(self), rhs)

\* a == b, by the impl the operand types select.
Eq(a, b) == IF IsVec(a) THEN ReusingVec_eq(a, b) ELSE ReusingQueue_eq(a, b)

EqSlice(a, v) == IF IsVec(a) THEN ReusingVec_eq_slice(a, v) ELSE ReusingQueue_eq_slice(a, v)

(***************************************************************************)
(* SpecEq: two containers, each with its own history of push_with, pop and  *)
(* pop_front, compared with == in both orders, with themselves and with a   *)
(* plain Vec.  There is an impl for queue == vec and none for vec == queue. *)
(***************************************************************************)
EqClosures == {c \in Closures : c.new_f = <<>> \/ c.new_f = <<1>>}

Left == IF kind = "vec" THEN vec ELSE queue

EqRoom(c) ==
    IF IsVec(c)
    THEN c.logical_len < Len(c.contents) \/ Len(c.contents) < EqPhys
    ELSE c.logical_end < Len(c.contents) \/ Len(c.contents) < EqPhys

PushWith(c, f) ==
    IF IsVec(c)
    THEN UntagOf(ReusingVec_push_with(TagOf(c), f))
    ELSE UntagOf(ReusingQueue_push_with(TagOf(c), f))

Pop(c) ==
    IF IsVec(c)
    THEN UntagOf(ReusingVec_pop(TagOf(c)).self)
    ELSE UntagOf(ReusingQueue_pop(TagOf(c)).self)

PopFront(c) == UntagOf(ReusingQueue_pop_front(TagOf(c)).self)

\* A step of SpecEq: the operands and the sequences they stand for after it,
\* what it returned and the plain Vec it was given.
EqStep(name, l, labs, r, rabs, result, v) ==
    /\ IF kind = "vec" THEN vec' = l /\ UNCHANGED queue ELSE queue' = l /\ UNCHANGED vec
    /\ q_abs' = labs
    /\ other' = r
    /\ o_abs' = rabs
    /\ op' = name
    /\ ret' = result
    /\ path' = "none"
    /\ dropped' = 0
    /\ stale' = <<>>
    /\ arg' = 0
    /\ out' = v
    /\ UNCHANGED <<kind, pc, todo, removed>>
    /\ UNCHANGED counters

ELeftPush ==
    \E f \in EqClosures :
        /\ EqRoom(Left)
        /\ EqStep("push_with", PushWith(Left, f), Append(q_abs, f.new_f),
                  other, o_abs, Unit, <<>>)

\* Both structs have pop.
ELeftPop ==
    /\ kind \in {"vec", "queue"}
    /\ EqStep("pop", Pop(Left), AbsPop(q_abs), other, o_abs, Unit, <<>>)

ELeftPopFront ==
    /\ kind = "queue"
    /\ EqStep("pop_front", PopFront(Left), AbsPopFront(q_abs), other, o_abs, Unit, <<>>)

\* The right-hand operand is a ReusingVec only where an impl takes one.
ERightNew ==
    \E c \in {ReusingVec_new, ReusingQueue_new} :
        /\ kind = "vec" => IsVec(c)
        /\ EqStep("new", Left, q_abs, c, <<>>, Unit, <<>>)

ERightClone ==
    /\ IsVec(other) <=> kind = "vec"
    /\ EqStep("clone", Left, q_abs, Left, q_abs, Unit, <<>>)

ERightPush ==
    \E f \in EqClosures :
        /\ EqRoom(other)
        /\ EqStep("push_with", Left, q_abs, PushWith(other, f), Append(o_abs, f.new_f),
                  Unit, <<>>)

ERightPop ==
    /\ IsVec(other) \/ ~IsVec(other)
    /\ EqStep("pop", Left, q_abs, Pop(other), AbsPop(o_abs), Unit, <<>>)

ERightPopFront ==
    /\ ~IsVec(other)
    /\ EqStep("pop_front", Left, q_abs, PopFront(other), AbsPopFront(o_abs), Unit, <<>>)

\* left == other, where an impl takes the pair of types
EEq ==
    /\ kind = "vec" => IsVec(other)
    /\ EqStep("eq", Left, q_abs, other, o_abs, Bool(Eq(Left, other)), <<>>)

\* other == left, where the types allow it
EEqRev ==
    /\ IsVec(other) <=> kind = "vec"
    /\ EqStep("eq_rev", Left, q_abs, other, o_abs, Bool(Eq(other, Left)), <<>>)

\* left == left
EEqSelf ==
    /\ kind \in {"vec", "queue"}
    /\ EqStep("eq_self", Left, q_abs, other, o_abs, Bool(Eq(Left, Left)), <<>>)

\* left == v for a plain Vec v: the other operand's window, or a backing Vec
EEqVec ==
    \E v \in {as_slice(other), Left.contents, other.contents} :
        EqStep("eq_vec", Left, q_abs, other, o_abs, Bool(EqSlice(Left, v)), v)

NextEq ==
    \/ ELeftPush \/ ELeftPop \/ ELeftPopFront
    \/ ERightNew \/ ERightClone \/ ERightPush \/ ERightPop \/ ERightPopFront
    \/ EEq \/ EEqRev \/ EEqSelf \/ EEqVec

SpecEq == Init /\ [][NextEq]_vars

(***************************************************************************)
(* SpecDrain: a ReusingQueue brought to any state by from(), push_with, pop *)
(* and pop_front, then drained by                                           *)
(*     while queue.pop().is_some() { queue.pop_front(); }                   *)
(* and asked for pop_front() once more.  pc is where the program is.        *)
(***************************************************************************)
InitDrain == Init /\ kind = "queue"

RunFromVec == pc = "run" /\ QFromVec

RunPushWith == pc = "run" /\ QPushWith

RunPop == pc = "run" /\ QPop

RunPopFront == pc = "run" /\ QPopFront

\* A step of the draining program: where it goes, and the removals so far.
Drain(next, t, n) ==
    /\ pc' = next
    /\ todo' = t
    /\ removed' = n
    /\ arg' = 0
    /\ out' = <<>>
    /\ UNCHANGED <<other, o_abs>>
    /\ UNCHANGED counters

\* The loop is entered with len() elements to remove.
DrainStart ==
    /\ pc = "run"
    /\ op' = "len"
    /\ ret' = Done(ReusingQueue_len_panics(queue))
    /\ path' = "none"
    /\ dropped' = 0
    /\ stale' = <<>>
    /\ UNCHANGED <<kind, vec, queue, q_abs>>
    /\ Drain("loop_pop", ReusingQueue_len(queue), 0)

\* while queue.pop().is_some()
DrainPop ==
    LET r == ReusingQueue_pop(TagOf(queue))
    IN /\ pc = "loop_pop"
       /\ QueueCall("pop", r, AbsPop(q_abs))
       /\ Drain(IF r.ret.tag = "Some" THEN "loop_front" ELSE "done",
                todo, removed + Returned(r.ret))

\* { queue.pop_front(); }
DrainPopFront ==
    LET r == ReusingQueue_pop_front(TagOf(queue))
    IN /\ pc = "loop_front"
       /\ QueueCall("pop_front", r, AbsPopFront(q_abs))
       /\ Drain("loop_pop", todo, removed + Returned(r.ret))

\* assert_eq!(queue.pop_front(), None)
DrainCheck ==
    /\ pc = "done"
    /\ QueueCall("pop_front", ReusingQueue_pop_front(TagOf(queue)), AbsPopFront(q_abs))
    /\ Drain("end", todo, removed)

NextDrain ==
    \/ RunFromVec \/ RunPushWith \/ RunPop \/ RunPopFront
    \/ DrainStart \/ DrainPop \/ DrainPopFront \/ DrainCheck

\* The loop is straight-line code: once entered, each of its steps is taken.
SpecDrain ==
    /\ InitDrain
    /\ [][NextDrain]_vars
    /\ WF_vars(DrainPop)
    /\ WF_vars(DrainPopFront)
    /\ WF_vars(DrainCheck)

(***************************************************************************)
(* Properties of Spec                                                      *)
(***************************************************************************)

\* C1: the live window contents[logical_start..logical_end] of the queue is,
\* element for element and in order, the abstract double-ended sequence built
\* by the same calls (append on push, drop the last on pop, drop the first on
\* pop_front, keep the first n on truncate(n), empty on clear), whatever
\* retired slots lie outside the window.
C1_WindowIsAbstractSeq ==
    kind = "queue" => ReusingQueue_deref(queue) = q_abs

\* A window with retired slots on both sides of it.
C1_Witness ==
    /\ kind = "queue"
    /\ queue.logical_start > 0
    /\ queue.logical_start < queue.logical_end
    /\ queue.logical_end < Len(queue.contents)
    /\ op = "truncate"

\* C2: an empty window has both markers at 0 in every reachable state, so a
\* push onto an empty window fills physical index 0.
C2_EmptyWindowAtZero ==
    /\ queue.logical_start = queue.logical_end
           => queue.logical_start = 0 /\ queue.logical_end = 0
    /\ (kind = "queue" /\ op \in PushOps /\ ReusingQueue_len(queue) = 1)
           => queue.logical_start = 0 /\ queue.logical_end = 1

\* A pop that emptied a window lying away from index 0.
C2_Witness ==
    /\ kind = "queue"
    /\ op = "pop"
    /\ ret.tag = "Some"
    /\ ret.idx > 0
    /\ queue.logical_start = 0
    /\ queue.logical_end = 0

\* C4: the logical markers lie inside the physical storage:
\* logical_len <= contents.len() for the ReusingVec and
\* logical_start <= logical_end <= contents.len() for the ReusingQueue.
C4_MarkersInStorage ==
    /\ 0 <= vec.logical_len
    /\ vec.logical_len <= Len(vec.contents)
    /\ 0 <= queue.logical_start
    /\ queue.logical_start <= queue.logical_end
    /\ queue.logical_end <= Len(queue.contents)

\* A push that grew the storage of a queue whose window starts past index 0:
\* both markers are as far out as they can be.
C4_Witness ==
    /\ kind = "queue"
    /\ op = "push_mut"
    /\ path = "new"
    /\ queue.logical_start > 0
    /\ queue.logical_end = Len(queue.contents)

\* C7 as stated: no call, push_val included, destroys a stored element.
C7_NoCallDrops == dropped = 0

\* C7, amended: no call other than push_val destroys a stored element; push_val
\* destroys exactly the retired element at index logical_len that it overwrites,
\* when there is one, and none when it appends.
C7_OnlyPushValDrops ==
    /\ op # "push_val" => dropped = 0
    /\ op = "push_val" => dropped = (IF path = "assign" THEN 1 ELSE 0)
    /\ op = "push_val" => (path = "assign" <=> stale # <<>>)

\* A clear of a vector with stored elements, which kept all of them.
C7_Witness ==
    /\ kind = "vec"
    /\ op = "clear"
    /\ Len(vec.contents) > 1
    /\ dropped = 0

\* C8: the element push_mut returns is the new last element of the live window
\* and holds what T::new produces, on the reuse path as on the fresh path.
C8_PushMutFresh ==
    op = "push_mut" =>
        /\ ret.tag = "Some"
        /\ kind = "vec" =>
               /\ ret.idx = ReusingVec_len(vec) - 1
               /\ vec.contents[ret.idx + 1] = ReusableElement_new.val
        /\ kind = "queue" =>
               /\ ret.idx = queue.logical_end - 1
               /\ queue.contents[ret.idx + 1] = ReusableElement_new.val

\* push_mut took over a retired slot that held a non-empty collection.
C8_Witness ==
    /\ op = "push_mut"
    /\ path = "reset"
    /\ stale = << <<1>> >>
    /\ kind = "queue"
    /\ queue.logical_start > 0

\* C9: pop returns the element that was last in the live window and pop_front
\* the one that was first, at its index before any collapse and with its content
\* as it was.
C9_PopReturnsEnd ==
    [][/\ (kind = "vec" /\ op' = "pop" /\ ReusingVec_len(vec) > 0) =>
              /\ ret' = Some(vec.logical_len - 1)
              /\ vec'.contents[ret'.idx + 1] = ReusingVec_deref(vec)[ReusingVec_len(vec)]
       /\ (kind = "queue" /\ op' = "pop" /\ ReusingQueue_len(queue) > 0) =>
              /\ ret' = Some(queue.logical_end - 1)
              /\ queue'.contents[ret'.idx + 1]
                     = ReusingQueue_deref(queue)[ReusingQueue_len(queue)]
       /\ (kind = "queue" /\ op' = "pop_front" /\ ReusingQueue_len(queue) > 0) =>
              /\ ret' = Some(queue.logical_start)
              /\ queue'.contents[ret'.idx + 1] = ReusingQueue_deref(queue)[1]
      ]_vars

\* pop_front emptied the queue from an index past 0, and the element handed back
\* is not the one stored at index 0.
C9_Witness ==
    /\ kind = "queue"
    /\ op = "pop_front"
    /\ ret.tag = "Some"
    /\ ret.idx > 0
    /\ queue.logical_end = 0
    /\ queue.contents[ret.idx + 1] # queue.contents[1]

\* C10: pop on an empty ReusingVec, and pop or pop_front on an empty
\* ReusingQueue, return None and leave markers and storage as they were.
C10_EmptyPopIsNoOp ==
    [][/\ (kind = "vec" /\ op' = "pop" /\ ReusingVec_is_empty(vec)) =>
              ret' = None /\ vec' = vec
       /\ (kind = "queue" /\ op' \in {"pop", "pop_front"} /\ ReusingQueue_is_empty(queue)) =>
              ret' = None /\ queue' = queue
      ]_vars

\* A pop that found the vector empty although it stores retired elements.
C10_Witness ==
    /\ kind = "vec"
    /\ op = "pop"
    /\ ret = None
    /\ Len(vec.contents) > 0

\* C11: truncate(len) never grows the logical length: with len at or above the
\* logical length it changes nothing, and with a smaller len the live window
\* becomes its first len elements, the queue's logical_start staying for len > 0.
C11_TruncateKeepsPrefix ==
    [][/\ (kind = "vec" /\ op' = "truncate") =>
              /\ ReusingVec_len(vec') <= ReusingVec_len(vec)
              /\ vec'.contents = vec.contents
              /\ arg' >= ReusingVec_len(vec) => vec' = vec
              /\ arg' < ReusingVec_len(vec) =>
                     ReusingVec_deref(vec') = SubSeq(ReusingVec_deref(vec), 1, arg')
       /\ (kind = "queue" /\ op' = "truncate") =>
              /\ ReusingQueue_len(queue') <= ReusingQueue_len(queue)
              /\ queue'.contents = queue.contents
              /\ arg' >= ReusingQueue_len(queue) => queue' = queue
              /\ arg' < ReusingQueue_len(queue) =>
                     /\ ReusingQueue_deref(queue') = SubSeq(ReusingQueue_deref(queue), 1, arg')
                     /\ arg' > 0 => queue'.logical_start = queue.logical_start
      ]_vars

\* truncate(1) left one element of a window that starts past index 0 and used
\* to reach further.
C11_Witness ==
    /\ kind = "queue"
    /\ op = "truncate"
    /\ arg = 1
    /\ queue.logical_start > 0
    /\ ReusingQueue_len(queue) = 1
    /\ queue.logical_end < Len(queue.contents)

\* C12: on the queue truncate(0) and clear() end in the same state: both
\* markers at 0 and the backing storage as it was.
C12_TruncateZeroIsClear ==
    [][(kind = "queue" /\ (op' = "clear" \/ (op' = "truncate" /\ arg' = 0))) =>
           /\ queue' = [logical_start |-> 0, logical_end |-> 0, contents |-> queue.contents]
           /\ ret' = Unit
           /\ dropped' = 0
      ]_vars

\* truncate(0) on a queue that stores elements.
C12_Witness ==
    /\ kind = "queue"
    /\ op = "truncate"
    /\ arg = 0
    /\ Len(queue.contents) > 1
    /\ queue.logical_start = 0
    /\ queue.logical_end = 0

\* C16: clear, truncate, pop and pop_front change the markers only: the
\* physical length and every stored element, live or retired, stay as they were.
C16_OnlyMarkersMove ==
    [][(op' \in {"clear", "truncate", "pop", "pop_front"}) =>
           /\ kind = "vec" => vec'.contents = vec.contents
           /\ kind = "queue" => queue'.contents = queue.contents
           /\ dropped' = 0
      ]_vars

\* pop_front handed back an element that still holds its items.
C16_Witness ==
    /\ kind = "queue"
    /\ op = "pop_front"
    /\ ret.tag = "Some"
    /\ queue.contents[ret.idx + 1] # <<>>
    /\ queue.logical_start > 0

\* C17: a push on the queue touches the tail only: it resets the slot at
\* logical_end if there is one and appends otherwise, adds 1 to logical_end,
\* and leaves logical_start and every other slot as they were.
C17_PushTouchesTail ==
    [][(kind = "queue" /\ op' \in {"push_with", "push_mut"}) =>
           /\ queue'.logical_start = queue.logical_start
           /\ queue'.logical_end = queue.logical_end + 1
           /\ path' = (IF queue.logical_end < Len(queue.contents) THEN "reset" ELSE "new")
           /\ Len(queue'.contents)
                  = (IF queue.logical_end < Len(queue.contents)
                     THEN Len(queue.contents) ELSE Len(queue.contents) + 1)
           /\ \A i \in 1..Len(queue.contents) :
                  i # queue.logical_end + 1 => queue'.contents[i] = queue.contents[i]
           /\ dropped' = 0
      ]_vars

\* A push that grew the storage although a retired slot lies in front of the
\* window.
C17_Witness ==
    /\ kind = "queue"
    /\ op = "push_with"
    /\ path = "new"
    /\ queue.logical_start > 0
    /\ queue.contents[1] # queue.contents[queue.logical_end]

\* C18: push_mut is push_with called with T::new and T::reset: the same branch,
\* the same resulting container, and the reference handed back is the last
\* element of the new live window.
C18_PushMutIsPushWith ==
    [][(op' = "push_mut") =>
           /\ kind = "vec" =>
                  LET with == ReusingVec_push_with(TagOf(vec), ElementClosures)
                  IN /\ vec' = UntagOf(with)
                     /\ path' = PathOf(Tag(vec.contents), with.contents, vec.logical_len)
                     /\ ret' = Some(ReusingVec_len(vec') - 1)
           /\ kind = "queue" =>
                  LET with == ReusingQueue_push_with(TagOf(queue), ElementClosures)
                  IN /\ queue' = UntagOf(with)
                     /\ path' = PathOf(Tag(queue.contents), with.contents, queue.logical_end)
                     /\ ret' = Some(queue'.logical_end - 1)
      ]_vars

\* push_mut on a vector whose next slot was retired with items in it.
C18_Witness ==
    /\ kind = "vec"
    /\ op = "push_mut"
    /\ path = "reset"
    /\ stale = << <<2>> >>

\* C13: converting a container to a plain Vec and iterating it by value both
\* give exactly the live window, in order, and so the same Vec as each other;
\* retired slots before or after the window never appear.
C13_ConversionsGiveWindow ==
    /\ ReusingVec_into_vec(vec) = ReusingVec_into_iter(vec)
    /\ ReusingQueue_into_vec(queue) = ReusingQueue_into_iter(queue)
    /\ op \in {"into_vec", "into_iter"} =>
           /\ kind = "vec" =>
                  /\ Len(out) = vec.logical_len
                  /\ \A i \in 1..Len(out) : out[i] = vec.contents[i]
           /\ kind = "queue" =>
                  /\ Len(out) = queue.logical_end - queue.logical_start
                  /\ \A i \in 1..Len(out) : out[i] = queue.contents[queue.logical_start + i]
                  /\ out = q_abs

\* An iteration of a queue with retired slots on both sides of a live window.
C13_Witness ==
    /\ kind = "queue"
    /\ op = "into_iter"
    /\ queue.logical_start > 0
    /\ queue.logical_end < Len(queue.contents)
    /\ out # <<>>

\* C14: a container turned into a plain Vec and built again from it shows the
\* same live window, starts at index 0 and has no retired slot left.
C14_RoundTrip ==
    [][op' = "round_trip" =>
          /\ kind = "vec" =>
                 /\ ReusingVec_deref(vec') = ReusingVec_deref(vec)
                 /\ vec'.logical_len = Len(vec'.contents)
          /\ kind = "queue" =>
                 /\ ReusingQueue_deref(queue') = ReusingQueue_deref(queue)
                 /\ queue'.logical_start = 0
                 /\ queue'.logical_end = Len(queue'.contents)]_vars

\* A queue rebuilt from a window of two elements.
C14_Witness ==
    /\ kind = "queue"
    /\ op = "round_trip"
    /\ Len(out) = 2
    /\ queue.contents = out
    /\ queue.logical_start = 0

\* C20: no call panics: end - start never underflows, every slice and drain
\* range is in bounds, and the unwrap() of a reusing push finds its element.
C20_NoPanic == ret.tag # "Panic"

\* A conversion that drains retired front slots and cuts retired tail slots.
C20_Witness ==
    /\ kind = "queue"
    /\ op = "into_vec"
    /\ ret = Unit
    /\ queue.logical_start > 0
    /\ queue.logical_end < Len(queue.contents)

(***************************************************************************)
(* Properties of SpecEq                                                    *)
(***************************************************************************)

\* C15: two containers compare equal exactly when the sequences they stand
\* for are the same, whatever their markers, physical lengths and retired
\* slots; the same holds against a plain Vec, with the operands exchanged, and
\* a container always equals itself.
C15_EqualityIsWindowEquality ==
    /\ op \in {"eq", "eq_rev"} => (ret = Bool(TRUE) <=> q_abs = o_abs)
    /\ op = "eq_vec" => (ret = Bool(TRUE) <=> q_abs = out)
    /\ op = "eq_self" => ret = Bool(TRUE)

\* Two queues that are equal with their windows at different places of
\* different backing Vecs.
C15_Witness ==
    /\ kind = "queue"
    /\ ~IsVec(other)
    /\ op = "eq"
    /\ ret = Bool(TRUE)
    /\ q_abs # <<>>
    /\ queue.logical_start # other.logical_start
    /\ queue.contents # other.contents

(***************************************************************************)
(* Properties of SpecDrain                                                 *)
(***************************************************************************)

\* C19: the draining loop, entered in any reachable queue state, ends; it
\* never removes more elements than len() counted when it was entered, and when
\* it has ended the queue is empty, both markers are 0 and the pop_front after
\* it returned None.
C19_DrainTerminates ==
    /\ (pc = "loop_pop") ~> (pc = "end")
    /\ [](removed <= todo)
    /\ [](pc \in {"done", "end"} =>
              /\ removed = todo
              /\ ReusingQueue_len(queue) = 0
              /\ queue.logical_start = 0
              /\ queue.logical_end = 0)
    /\ [](pc = "end" => ret = None)

\* A loop that ended after removing the two live elements of a queue that
\* had a retired slot as well.
C19_Witness ==
    /\ pc = "end"
    /\ todo = 2
    /\ removed = 2
    /\ Len(queue.contents) = 3

(***************************************************************************)
(* Properties of SpecDrift                                                 *)
(***************************************************************************)

\* C3 as stated: in pop_front/push cycles whose live length never exceeds
\* LiveCap, logical_start and the physical length stay below a bound that
\* depends on LiveCap alone.  The bound tried is the most a window of LiveCap
\* elements could need with LiveCap retired slots in front of it; the runs
\* pass any other bound in the same way once DriftPhys is above it.
C3_DriftBoundedByCap ==
    /\ queue.logical_start <= LiveCap
    /\ Len(queue.contents) <= 2 * LiveCap

\* C3, amended: logical_start is the number of pop_front calls since the window
\* was last empty, 0 when it is empty, and the physical length is at most the
\* largest such number plus LiveCap.
C3_DriftSinceEmpty ==
    /\ queue.logical_start = fronts
    /\ ReusingQueue_is_empty(queue) => fronts = 0
    /\ queue.logical_end <= fronts + LiveCap
    /\ Len(queue.contents) <= peak_fronts + LiveCap

\* The window drifted more than LiveCap slots, then a pop_front emptied it and
\* the markers went back to 0.
C3_Witness ==
    /\ op = "pop_front"
    /\ ret.tag = "Some"
    /\ ret.idx > LiveCap
    /\ peak_fronts > LiveCap
    /\ queue.logical_start = 0
    /\ queue.logical_end = 0

(***************************************************************************)
(* Properties of SpecReuse                                                 *)
(***************************************************************************)

\* C5: a push constructs a fresh element only when logical_len equals the
\* physical length and resets the slot at logical_len otherwise, so the number
\* of fresh constructions is the largest logical length reached.
C5_ConstructOnlyWhenFull ==
    [][/\ op' \in PushOps =>
              path' = (IF vec.logical_len = Len(vec.contents) THEN "new" ELSE "reset")
       /\ (op' \in PushOps /\ op \in {"pop", "clear"} /\ Len(vec.contents) > 0
               /\ (op = "pop" => ret.tag = "Some"))
              => path' = "reset"
       /\ n_new' = peak_len'
      ]_vars

\* push, pop to empty, push again: one construction, then a reset.
C5_Witness ==
    /\ op = "push_mut"
    /\ path = "reset"
    /\ vec.logical_len = 1
    /\ peak_len = 1
    /\ n_new = 1

(***************************************************************************)
(* Properties of SpecPP                                                    *)
(***************************************************************************)

\* C6: after any sequence of pushes and pops len() is the number of pushes
\* minus the number of pops that returned an element, never negative, and
\* is_empty() holds exactly when that number is 0.
C6_LenIsPushesMinusPops ==
    /\ n_push - n_pop >= 0
    /\ kind = "vec" =>
           /\ ReusingVec_len(vec) = n_push - n_pop
           /\ ReusingVec_is_empty(vec) <=> (n_push - n_pop = 0)
    /\ kind = "queue" =>
           /\ ReusingQueue_len(queue) = n_push - n_pop
           /\ ReusingQueue_is_empty(queue) <=> (n_push - n_pop = 0)

\* A queue after three pushes and two pops, one of them from the front.
C6_Witness ==
    /\ kind = "queue"
    /\ n_push = 3
    /\ n_pop = 2
    /\ op = "pop"
    /\ queue.logical_start > 0

====
